---- MODULE Spec2Model ----
(***************************************************************************)
(* geodata: the Dataset planner of src/geodata/dataset.py (construction,   *)
(* get_data, trim_variables) over a local file tree, with the ERA5 helpers *)
(* of src/geodata/datasets/era5.py.                                        *)
(***************************************************************************)
EXTENDS Integers, Sequences, FiniteSets, TLC

VARIABLES
    dirs,            \* the data directories that exist (os.path.isdir)
    files,           \* path -> set of variable names, for the files that exist
    phase,           \* "new": nothing constructed; "live": a Dataset; "failed": __init__ raised
    module,          \* self.module
    config,          \* self.config
    years,           \* self.years  (a slice)
    months,          \* self.months (a slice)
    bounds,          \* self.bounds, or NoBounds when the attribute was never set
    xs,              \* datasetparams['xs'], or NoSlice
    ys,              \* datasetparams['ys'], or NoSlice
    prepared,        \* self.prepared
    toDownload,      \* self.toDownload
    downloadedFiles, \* self.downloadedFiles
    totalFiles,      \* self.totalFiles
    ncalls,          \* the number of get_data and trim_variables calls made so far
    last             \* what the last call did and was given (observation only)

vars == <<dirs, files, phase, module, config, years, months, bounds, xs, ys,
          prepared, toDownload, downloadedFiles, totalFiles, ncalls, last>>

\* a request key that was not passed, an attribute that was never set
Absent == "absent"
NoSlice == [absent |-> TRUE]
\* no request passes an empty list, so <<>> can stand for "no bounds"
NoBounds == <<>>

-----------------------------------------------------------------------------
(* Bounds of the model *)

\* a slice's step is drawn from 0..MaxStep, 0 standing for None
MaxStep == 2
\* the month slices start and stop in 1..MaxMonth
MaxMonth == 2
\* an injected I/O failure of trim_variables hits one of the first MaxFailAt files
MaxFailAt == 2
\* an acquisition routine that stops early has written at most MaxPartial files
MaxPartial == 1
\* get_data and trim_variables are called at most MaxCalls times on a Dataset
MaxCalls == 3

RequestYears == {2019, 2020}

-----------------------------------------------------------------------------
(* Python helpers *)

Min(a, b) == IF a < b THEN a ELSE b

\* range(start, stop, step) for step >= 1
PyRange(start, stop, step) ==
    LET n == IF stop > start THEN (stop - start + step - 1) \div step ELSE 0
    IN  [i \in 1..n |-> start + (i - 1) * step]

\* slice(start, stop, step); step 0 stands for None
Slice(a, b, s) == [start |-> a, stop |-> b, step |-> s]

\* step = s.step if s.step else 1; range(s.start, s.stop+step, step)
ExpandSlice(s) ==
    LET step == IF s.step # 0 THEN s.step ELSE 1
    IN  PyRange(s.start, s.stop + step, step)

IsLeap(y) == y % 4 = 0 /\ (y % 100 # 0 \/ y % 400 = 0)

\* a calendar in which February always has 28 days
DaysInMonthNoLeap(yr, mo) ==
    IF mo = 2 THEN 28 ELSE IF mo \in {4, 6, 9, 11} THEN 30 ELSE 31

\* calendar.monthrange(yr, mo)[1]; raises IllegalMonthError outside 1..12
MonthOK(mo) == mo \in 1..12
DaysInMonth(yr, mo) ==
    IF mo = 2 THEN (IF IsLeap(yr) THEN 29 ELSE 28)
    ELSE IF mo \in {4, 6, 9, 11} THEN 30 ELSE 31

\* Op applied to the value of v, which is computed once
With(v, Op(_)) == CHOOSE r \in {Op(x) : x \in {v}} : TRUE

\* the flattening of a sequence of sequences
RECURSIVE Concat(_)
Concat(ss) == IF ss = <<>> THEN <<>> ELSE Head(ss) \o Concat(Tail(ss))

-----------------------------------------------------------------------------
(* Templates: str.format_map over the fields year, month, day, spinup *)

Lit(s) == [lit |-> s, field |-> "", pad |-> 0]
Fld(f) == [lit |-> "", field |-> f, pad |-> 0]
\* "{month:0>2}"
Pad2(f) == [lit |-> "", field |-> f, pad |-> 2]

\* format(n, "0>w"): right-aligned in width w, filled with "0"
FormatInt(n, w) == IF w = 2 /\ n >= 0 /\ n < 10 THEN "0" \o ToString(n) ELSE ToString(n)

TemplateFields(tmpl) == {tmpl[i].field : i \in 1..Len(tmpl)} \ {""}

RECURSIVE FormatMap(_, _)
FormatMap(tmpl, dataset) ==
    IF tmpl = <<>> THEN ""
    ELSE LET p == Head(tmpl)
             s == IF p.field = "" THEN p.lit ELSE FormatInt(dataset[p.field], p.pad)
         IN  s \o FormatMap(Tail(tmpl), dataset)

-----------------------------------------------------------------------------
(* The dataset modules and their weather_data_config tables *)

Modules == {"era5", "merra2", "modis"}

\* dataset_module.datadir
DataDir(m) == m

\* dataset_module.spinup_var
SpinupVar(m) == m = "merra2"

\* dataset_module.spinup_year(year): the stream number of the MERRA-2 production run
SpinupYear(year) ==
    IF year < 1992 THEN 100 ELSE IF year < 2001 THEN 200 ELSE IF year < 2011 THEN 300 ELSE 400

\* geodata.datasets.era5.weather_data_config: config name -> weatherconfig
Era5Config ==
    [wind_solar_hourly |->
        [file_granularity |-> "monthly",
         fn  |-> <<Lit("era5/"), Fld("year"), Lit("/"), Pad2("month"), Lit("/wind_solar_hourly.nc")>>,
         url |-> <<>>,
         variables |-> {"t2m", "u100"}]]

\* geodata.datasets.merra2.weather_data_config
Merra2Config ==
    [surface_flux_hourly |->
        [file_granularity |-> "daily",
         fn  |-> <<Lit("merra2/"), Fld("year"), Lit("/"), Pad2("month"), Lit("/MERRA2_"),
                   Fld("spinup"), Lit(".tavg1_2d_flx_Nx."), Fld("year"), Pad2("month"),
                   Pad2("day"), Lit(".nc4")>>,
         url |-> <<<<Lit("https://goldsmr4/M2T1NXFLX/"), Fld("year"), Lit("/"), Pad2("month"),
                     Lit("/MERRA2_"), Fld("spinup"), Lit(".tavg1_2d_flx_Nx."), Fld("year"),
                     Pad2("month"), Pad2("day"), Lit(".nc4")>>>>,
         variables |-> {"t2m", "u100"}],
     surface_flux_monthly |->
        [file_granularity |-> "monthly",
         fn  |-> <<Lit("merra2/"), Fld("year"), Lit("/MERRA2_"), Fld("spinup"),
                   Lit(".tavgM_2d_flx_Nx."), Fld("year"), Pad2("month"), Lit(".nc4")>>,
         url |-> <<<<Lit("https://goldsmr4/M2TMNXFLX/"), Fld("year"), Lit("/MERRA2_"),
                     Fld("spinup"), Lit(".tavgM_2d_flx_Nx."), Fld("year"), Pad2("month"),
                     Lit(".nc4")>>>>,
         variables |-> {"t2m", "u100"}],
     slv_radiation_hourly |->
        [file_granularity |-> "daily_multiple",
         fn  |-> <<Lit("merra2/"), Fld("year"), Lit("/"), Pad2("month"), Lit("/MERRA2_"),
                   Fld("spinup"), Lit(".tavg1_2d_slv_rad_Nx."), Fld("year"), Pad2("month"),
                   Pad2("day"), Lit(".nc4")>>,
         url |-> <<<<Lit("https://goldsmr4/M2T1NXSLV/"), Fld("year"), Lit("/"), Pad2("month"),
                     Lit("/MERRA2_"), Fld("spinup"), Lit(".tavg1_2d_slv_Nx."), Fld("year"),
                     Pad2("month"), Pad2("day"), Lit(".nc4")>>,
                   <<Lit("https://goldsmr4/M2T1NXRAD/"), Fld("year"), Lit("/"), Pad2("month"),
                     Lit("/MERRA2_"), Fld("spinup"), Lit(".tavg1_2d_rad_Nx."), Fld("year"),
                     Pad2("month"), Pad2("day"), Lit(".nc4")>>>>,
         variables |-> {"t2m", "u100"}],
     slv_radiation_monthly |->
        [file_granularity |-> "monthly_multiple",
         fn  |-> <<Lit("merra2/"), Fld("year"), Lit("/MERRA2_"), Fld("spinup"),
                   Lit(".tavgM_2d_slv_rad_Nx."), Fld("year"), Pad2("month"), Lit(".nc4")>>,
         url |-> <<<<Lit("https://goldsmr4/M2TMNXSLV/"), Fld("year"), Lit("/MERRA2_"),
                     Fld("spinup"), Lit(".tavgM_2d_slv_Nx."), Fld("year"), Pad2("month"),
                     Lit(".nc4")>>,
                   <<Lit("https://goldsmr4/M2TMNXRAD/"), Fld("year"), Lit("/MERRA2_"),
                     Fld("spinup"), Lit(".tavgM_2d_rad_Nx."), Fld("year"), Pad2("month"),
                     Lit(".nc4")>>>>,
         variables |-> {"t2m", "u100"}]]

\* geodata.datasets.modis.weather_data_config
ModisConfig ==
    [modis_land_cover |->
        [file_granularity |-> "yearly",
         fn  |-> <<Lit("modis/modis_land_cover_"), Fld("year"), Lit(".tif")>>,
         url |-> <<>>,
         band |-> "LC_Type1",
         variables |-> {"t2m", "u100"}]]

\* two more configurations a module may declare, both of monthly granularity: one whose
\* filename template leaves out the month, one whose url template names the day
OtherTemplates ==
    [flx_year_file |->
        [file_granularity |-> "monthly",
         fn  |-> <<Lit("merra2/"), Fld("year"), Lit("/MERRA2_"), Fld("spinup"),
                   Lit(".tavgM_2d_flx_Nx.nc4")>>,
         url |-> <<<<Lit("https://goldsmr4/M2TMNXFLX/"), Fld("year"), Lit("/MERRA2_"),
                     Fld("spinup"), Lit(".tavgM_2d_flx_Nx."), Fld("year"), Pad2("month"),
                     Lit(".nc4")>>>>,
         variables |-> {"t2m", "u100"}],
     flx_day_url |->
        [file_granularity |-> "monthly",
         fn  |-> <<Lit("merra2/"), Fld("year"), Lit("/MERRA2_"), Fld("spinup"),
                   Lit(".tavgM_2d_day_Nx."), Fld("year"), Pad2("month"), Lit(".nc4")>>,
         url |-> <<<<Lit("https://goldsmr4/M2TMNXDAY/"), Fld("year"), Lit("/MERRA2_"),
                     Fld("spinup"), Lit(".tavgM_2d_day_Nx."), Fld("year"), Pad2("month"),
                     Pad2("day"), Lit(".nc4")>>>>,
         variables |-> {"t2m", "u100"}]]

\* dataset_module.weather_data_config
WeatherDataConfig(m) ==
    IF m = "era5" THEN Era5Config
    ELSE IF m = "merra2" THEN Merra2Config @@ OtherTemplates
    ELSE ModisConfig

ConfigNames == UNION {DOMAIN WeatherDataConfig(m) : m \in Modules}

-----------------------------------------------------------------------------
(* Dataset.datasetfn *)

\* the dict datasetfn builds from its positional arguments (yr, mo, day)
DatasetDict(m, args) ==
    LET base == IF Len(args) = 3 THEN [year |-> args[1], month |-> args[2], day |-> args[3]]
                ELSE IF Len(args) = 2 THEN [year |-> args[1], month |-> args[2]]
                ELSE [year |-> args[1]]
    IN  IF SpinupVar(m) THEN ("spinup" :> SpinupYear(base.year)) @@ base ELSE base

\* fn.format_map(dataset) raises KeyError for a field the dict lacks
DatasetFnRaises(m, fn, args) == ~(TemplateFields(fn) \subseteq DOMAIN DatasetDict(m, args))

\* return fn.format_map(dataset)
DatasetFn(m, fn, args) == With(DatasetDict(m, args), LAMBDA dataset : FormatMap(fn, dataset))

-----------------------------------------------------------------------------
(* Dataset.__init__ *)

\* x1, y1, x2, y2 = bounds; xs = slice(x1, x2); ys = slice(y2, y1)
BoundsXs(b) == Slice(b[1], b[3], 0)
BoundsYs(b) == Slice(b[4], b[2], 0)

\* type(self.bounds) is list and len(self.bounds) == 4
BoundsWellFormed(b) == Len(b) = 4

\* a constructor that takes modis_land_cover through the loop over (year, month)
KeyArityModisMonthly(cfgName, wc) ==
    IF wc.file_granularity \in {"daily", "dailymeans", "daily_multiple"} THEN 3
    ELSE IF wc.file_granularity \in {"monthly", "monthly_multiple"} THEN 2
    ELSE IF cfgName = "modis_land_cover" THEN 2
    ELSE 0

\* the granularity branch taken: the arity of the temporal key, 0 when no branch matches
KeyArity(cfgName, wc) ==
    IF wc.file_granularity \in {"daily", "dailymeans", "daily_multiple"} THEN 3
    ELSE IF wc.file_granularity \in {"monthly", "monthly_multiple"} THEN 2
    ELSE IF cfgName = "modis_land_cover" THEN 1
    ELSE 0

\* an enumeration of the (year, month) keys with the months in the outer loop
TemporalKeysMonthMajor(arity, yrs, mos) ==
    IF arity = 3 THEN
        Concat([i \in 1..Len(yrs) |->
            Concat([j \in 1..Len(mos) |->
                [d \in 1..DaysInMonth(yrs[i], mos[j]) |-> <<yrs[i], mos[j], d>>]])])
    ELSE IF arity = 2 THEN
        Concat([j \in 1..Len(mos) |-> [i \in 1..Len(yrs) |-> <<yrs[i], mos[j]>>]])
    ELSE IF arity = 1 THEN
        [i \in 1..Len(yrs) |-> <<yrs[i]>>]
    ELSE <<>>

\* the temporal keys in the order the branch enumerates them
TemporalKeys(arity, yrs, mos) ==
    IF arity = 3 THEN
        Concat([i \in 1..Len(yrs) |->
            Concat([j \in 1..Len(mos) |->
                [d \in 1..DaysInMonth(yrs[i], mos[j]) |-> <<yrs[i], mos[j], d>>]])])
    ELSE IF arity = 2 THEN
        Concat([i \in 1..Len(yrs) |-> [j \in 1..Len(mos) |-> <<yrs[i], mos[j]>>]])
    ELSE IF arity = 1 THEN
        [i \in 1..Len(yrs) |-> <<yrs[i]>>]
    ELSE <<>>

\* the url templates a toDownload entry renders, in order
UrlTemplates(m, wc) ==
    IF wc.file_granularity \in {"daily_multiple", "monthly_multiple"} THEN <<wc.url[1], wc.url[2]>>
    ELSE IF wc.file_granularity \in {"daily", "dailymeans"} THEN <<wc.url[1]>>
    ELSE IF wc.file_granularity = "monthly" /\ m # "era5" THEN <<wc.url[1]>>
    ELSE <<>>

\* an entry that renders the first url template twice
DownloadEntrySameUrl(m, cfgName, wc, b, filename, key) ==
    IF wc.file_granularity \in {"daily_multiple", "monthly_multiple"} THEN
        <<cfgName, filename, DatasetFn(m, wc.url[1], key), DatasetFn(m, wc.url[1], key)>>
    ELSE IF wc.file_granularity \in {"daily", "dailymeans"} THEN
        <<cfgName, filename, DatasetFn(m, wc.url[1], key)>>
    ELSE IF wc.file_granularity = "monthly" THEN
        (IF m = "era5" THEN <<cfgName, filename, key[1], key[2]>>
         ELSE <<cfgName, filename, DatasetFn(m, wc.url[1], key)>>)
    ELSE <<cfgName, filename, b, wc.band>>

\* the tuple appended to toDownload for a missing file
DownloadEntry(m, cfgName, wc, b, filename, key) ==
    IF wc.file_granularity \in {"daily_multiple", "monthly_multiple"} THEN
        <<cfgName, filename, DatasetFn(m, wc.url[1], key), DatasetFn(m, wc.url[2], key)>>
    ELSE IF wc.file_granularity \in {"daily", "dailymeans"} THEN
        <<cfgName, filename, DatasetFn(m, wc.url[1], key)>>
    ELSE IF wc.file_granularity = "monthly" THEN
        (IF m = "era5" THEN <<cfgName, filename, key[1], key[2]>>
         ELSE <<cfgName, filename, DatasetFn(m, wc.url[1], key)>>)
    ELSE <<cfgName, filename, b, wc.band>>

\* the indices of s, in order, that satisfy Test
Indices(n, Test(_)) == SelectSeq([i \in 1..n |-> i], Test)

\* a scan that appends every name to toDownload, whether the file is there or not
MissingFilesEvery(names, onDisk) == Indices(Len(names), LAMBDA i : TRUE)

\* the positions of the names for which os.path.isfile is false (true), in order
MissingFiles(names, onDisk) == Indices(Len(names), LAMBDA i : names[i] \notin onDisk)
PresentFiles(names, onDisk) == Indices(Len(names), LAMBDA i : names[i] \in onDisk)

\* a constructor without the branch of line 95
RequiresBoundsNever(cfgName) == FALSE

\* line 95: the configuration that cannot do without bounds
RequiresBounds(cfgName) == cfgName = "modis_land_cover"

NoDataset ==
    [module |-> Absent, config |-> Absent, years |-> NoSlice, months |-> NoSlice,
     bounds |-> NoBounds, xs |-> NoSlice, ys |-> NoSlice, prepared |-> FALSE,
     toDownload |-> <<>>, downloadedFiles |-> <<>>, totalFiles |-> <<>>]

Raised(err, checks) == [error |-> err, checks |-> checks, self |-> NoDataset]

\* the result of the scan once the keys, the file names and the partition are known
ScanResult(req, wc, mo, isdir, keys, names, miss, pres) ==
    LET m    == req.module
        hasB == req.bounds # NoBounds
        urlRaises == miss # <<>> /\ \E k \in 1..Len(UrlTemplates(m, wc)) :
                         DatasetFnRaises(m, UrlTemplates(m, wc)[k], keys[miss[1]])
    IN  IF urlRaises THEN Raised("KeyError", 1 + miss[1])
        ELSE [error |-> "",
              checks |-> 1 + Len(keys),
              self |->
                [module |-> m, config |-> req.weather_data_config,
                 years |-> req.years, months |-> mo,
                 bounds |-> req.bounds,
                 xs |-> IF hasB THEN BoundsXs(req.bounds) ELSE NoSlice,
                 ys |-> IF hasB THEN BoundsYs(req.bounds) ELSE NoSlice,
                 prepared |-> isdir /\ miss = <<>>,
                 toDownload |-> [k \in 1..Len(miss) |->
                     DownloadEntry(m, req.weather_data_config, wc, req.bounds,
                                   names[miss[k]], keys[miss[k]])],
                 downloadedFiles |-> [k \in 1..Len(pres) |->
                     <<req.weather_data_config, names[pres[k]]>>],
                 totalFiles |-> [i \in 1..Len(keys) |-> <<req.weather_data_config, names[i]>>]]]

\* the scan of lines 100-230: req has passed validation. self.prepared starts False, becomes
\* True when the directory exists and False again at the first missing file
ScanFiles(req, wc, d, f) ==
    LET m        == req.module
        mo       == IF req.months = NoSlice THEN Slice(1, 12, 0) ELSE req.months
        isdir    == DataDir(m) \in d
        yrs      == ExpandSlice(req.years)
        mos      == ExpandSlice(mo)
        arity    == KeyArity(req.weather_data_config, wc)
        badMonth == arity = 3 /\ yrs # <<>> /\ \E j \in 1..Len(mos) : ~MonthOK(mos[j])
    IN  IF badMonth THEN Raised("IllegalMonthError", 1)
        ELSE With(TemporalKeys(arity, yrs, mos), LAMBDA keys :
            IF keys # <<>> /\ DatasetFnRaises(m, wc.fn, keys[1]) THEN Raised("KeyError", 1)
            ELSE With([i \in 1..Len(keys) |-> DatasetFn(m, wc.fn, keys[i])] \o <<>>, LAMBDA names :
                 With(DOMAIN f, LAMBDA onDisk :
                 With(MissingFiles(names, onDisk), LAMBDA miss :
                 With(PresentFiles(names, onDisk), LAMBDA pres :
                     ScanResult(req, wc, mo, isdir, keys, names, miss, pres))))))

\* the validation of lines 47-98, in the order of the code
DatasetInit(req, d, f) ==
    IF req.module = Absent THEN Raised("ValueError", 0)
    ELSE IF req.weather_data_config = Absent THEN Raised("ValueError", 0)
    ELSE IF req.weather_data_config \notin DOMAIN WeatherDataConfig(req.module)
        THEN Raised("KeyError", 0)
    ELSE IF req.years = NoSlice THEN Raised("ValueError", 0)
    ELSE IF req.bounds # NoBounds /\ ~BoundsWellFormed(req.bounds) THEN Raised("ValueError", 0)
    ELSE IF req.bounds = NoBounds /\ RequiresBounds(req.weather_data_config)
        THEN Raised("ValueError", 0)
    ELSE ScanFiles(req, WeatherDataConfig(req.module)[req.weather_data_config], d, f)

-----------------------------------------------------------------------------
(* The file tree: NetCDF files as the sets of their data variables *)

\* str.lower on the variable names that occur
Lower(v) ==
    IF v = "T2M" THEN "t2m" ELSE IF v = "U100" THEN "u100" ELSE IF v = "PS" THEN "ps" ELSE v

RawFull  == {"T2M", "U100", "PS"}
\* lacks a variable of the allow-list: ds[vars] raises KeyError
RawShort == {"T2M", "PS"}
\* two names that lower-case to one: ds.rename raises ValueError
RawMixed == {"T2M", "t2m", "U100"}

FileContents     == {RawFull, RawShort, RawMixed}
DownloadContents == {RawFull, RawShort}

\* the files already on disk are those of one configuration, for the keys of a family
DiskFamilies == {"all", "odd", "even"}

KeepKey(fam, key) ==
    LET k == key[Min(2, Len(key))]
    IN  fam = "all" \/ (fam = "odd" /\ k % 2 = 1) \/ (fam = "even" /\ k % 2 = 0)

\* the part of the calendar a mirror covers: the years, and the months 1..mos (1..dailyMos
\* for the configurations with one file per day)
PlanSpan == [yrs |-> <<2019, 2020>>, mos |-> 12, dailyMos |-> MaxMonth + 1]
LifeSpan == [yrs |-> <<2020>>, mos |-> 2, dailyMos |-> 2]

DiskFiles(m, c, fam, content, span) ==
    LET wc    == WeatherDataConfig(m)[c]
        arity == KeyArity(c, wc)
        keys  == TemporalKeys(arity, span.yrs,
                              [i \in 1..(IF arity = 3 THEN span.dailyMos ELSE span.mos) |-> i])
        names == {DatasetFn(m, wc.fn, keys[i]) : i \in {j \in 1..Len(keys) : KeepKey(fam, keys[j])}}
    IN  [p \in names |-> content]

NoFiles == [p \in {} |-> {}]

\* the file trees a behaviour may start from: no directory, an empty directory, or the
\* files of one configuration, of a family and a content drawn from kinds
FileTrees(kinds, span) ==
    {[dirs |-> {}, files |-> NoFiles]}
    \cup {[dirs |-> {DataDir(m)}, files |-> NoFiles] : m \in Modules}
    \cup UNION {{[dirs |-> {DataDir(m)}, files |-> DiskFiles(m, c, k[1], k[2], span)] :
                    c \in DOMAIN WeatherDataConfig(m), k \in kinds} :
                m \in Modules}

\* for the scan the content of a file is immaterial
PlanTrees == FileTrees(DiskFamilies \X {RawFull}, PlanSpan)

\* a complete mirror of each content, and the partial mirrors
LifeTrees == FileTrees(({"all"} \X FileContents) \cup (DiskFamilies \X {RawFull}), LifeSpan)

-----
(* The requests: the keyword arguments of the Dataset constructor *)

\* North, West, South, East; the third is malformed
BoundsLists == {<<50, -1, 49, 1>>, <<42, 10, 35, 20>>, <<50, -1, 49>>}

Slices(lo, hi) == {Slice(a, b, s) : a \in lo, b \in hi, s \in 0..MaxStep}

Request(m, c, y, mo, b) ==
    [module |-> m, weather_data_config |-> c, years |-> y, months |-> mo, bounds |-> b]

\* a dispatch with else in the place of elif self.module == 'merra2'
DispatchElse(m) == IF m = "era5" THEN "era5" ELSE "merra2"

\* the branch of lines 260-275 taken for self.module
Dispatch(m) == IF m = "era5" THEN "era5" ELSE IF m = "merra2" THEN "merra2" ELSE "none"

\* the requests that pass every key, for the configurations the modules declare
FullRequests ==
    UNION {{Request(m, c, y, mo, b) :
                c \in DOMAIN WeatherDataConfig(m),
                y \in Slices(RequestYears, RequestYears),
                mo \in Slices(1..MaxMonth, 1..MaxMonth) \cup {NoSlice},
                b \in {<<50, -1, 49, 1>>, NoBounds}} :
           m \in Modules}

\* requests that lack a required key, name a configuration the module does not declare,
\* or pass other bounds
OtherRequests ==
    {Request(m, c, y, NoSlice, b) :
        m \in Modules \cup {Absent}, c \in ConfigNames \cup {Absent},
        y \in {Slice(2020, 2020, 0), NoSlice}, b \in BoundsLists \cup {NoBounds}}

\* the year 2020 with the months 1..12 spelled out, for the configurations with one file
\* per month
WholeYearRequests ==
    UNION {{Request(m, c, Slice(2020, 2020, 0), Slice(1, 12, 0), b) :
                c \in {n \in DOMAIN WeatherDataConfig(m) :
                          KeyArity(n, WeatherDataConfig(m)[n]) = 2},
                b \in {<<50, -1, 49, 1>>, NoBounds}} :
           m \in Modules}

AllRequests == FullRequests \cup OtherRequests \cup WholeYearRequests

\* the requests for January and February of 2020 and for no year at all (2020 to 2019), and
\* requests that construction rejects
LifeRequests ==
    {r \in FullRequests : /\ r.weather_data_config \notin DOMAIN OtherTemplates
                          /\ r.years.start = 2020 /\ r.years.step = 0
                          /\ r.months = Slice(1, 2, 0)
                          /\ (r.bounds = NoBounds => Dispatch(r.module) # "merra2")}
    \cup {r \in OtherRequests : r.module = Absent \/ r.years = NoSlice \/ r.bounds = <<50, -1, 49>>}

\* a tree populated with the files of one configuration is scanned by the requests for that
\* configuration: the scan looks at no other file, so the requests for the other
\* configurations are explored on the trees without files
ConfigsOnDisk(f) ==
    {c \in ConfigNames : \E m \in Modules :
        /\ c \in DOMAIN WeatherDataConfig(m)
        /\ DOMAIN DiskFiles(m, c, "all", RawFull, PlanSpan) \cap DOMAIN f # {}}

RequestsFor(reqs, f) ==
    IF f = NoFiles THEN reqs
    ELSE With(ConfigsOnDisk(f), LAMBDA cs : {r \in reqs : r.weather_data_config \in cs})

NoCall == [op |-> "", error |-> "", checks |-> 0]

InitWith(trees) ==
    /\ \E t \in trees : dirs = t.dirs /\ files = t.files
    /\ phase = "new"
    /\ module = NoDataset.module /\ config = NoDataset.config
    /\ years = NoDataset.years /\ months = NoDataset.months
    /\ bounds = NoDataset.bounds /\ xs = NoDataset.xs /\ ys = NoDataset.ys
    /\ prepared = NoDataset.prepared
    /\ toDownload = NoDataset.toDownload
    /\ downloadedFiles = NoDataset.downloadedFiles
    /\ totalFiles = NoDataset.totalFiles
    /\ ncalls = 0
    /\ last = NoCall

SetSelf(self) ==
    /\ module' = self.module /\ config' = self.config
    /\ years' = self.years /\ months' = self.months
    /\ bounds' = self.bounds /\ xs' = self.xs /\ ys' = self.ys
    /\ prepared' = self.prepared
    /\ toDownload' = self.toDownload
    /\ downloadedFiles' = self.downloadedFiles
    /\ totalFiles' = self.totalFiles

\* Dataset.__init__ on a request: the construction reads the file tree and changes nothing in it
Construct(reqs) ==
    /\ phase = "new"
    /\ \E req \in RequestsFor(reqs, files) :
        \E r \in {DatasetInit(req, dirs, files)} :
            /\ phase' = IF r.error = "" THEN "live" ELSE "failed"
            /\ SetSelf(r.self)
            /\ last' = [op |-> "__init__", error |-> r.error, checks |-> r.checks,
                        request |-> req, nth |-> 1]
    /\ UNCHANGED <<dirs, files, ncalls>>

\* a list attribute that every instance would share (a mutable class attribute)
FreshListShared(held) == held

\* lines 81-83: self.toDownload = [] and so on: the lists of a new instance start empty,
\* whatever the lists of an earlier instance hold
FreshList(held) == <<>>

\* Dataset.__init__ a second time, with the parameters of the first, the file tree being
\* what it was: the variables now describe the second instance
ConstructAgain ==
    /\ phase \in {"live", "failed"}
    /\ last.op = "__init__" /\ last.nth = 1
    /\ \E r \in {DatasetInit(last.request, dirs, files)} :
        /\ phase' = IF r.error = "" THEN "live" ELSE "failed"
        /\ module' = r.self.module /\ config' = r.self.config
        /\ years' = r.self.years /\ months' = r.self.months
        /\ bounds' = r.self.bounds /\ xs' = r.self.xs /\ ys' = r.self.ys
        /\ prepared' = r.self.prepared
        /\ toDownload' = FreshList(toDownload) \o r.self.toDownload
        /\ downloadedFiles' = FreshList(downloadedFiles) \o r.self.downloadedFiles
        /\ totalFiles' = FreshList(totalFiles) \o r.self.totalFiles
        /\ last' = [op |-> "__init__", error |-> r.error, checks |-> r.checks,
                    request |-> last.request, nth |-> 2]
    /\ UNCHANGED <<dirs, files, ncalls>>

-----------------------------------------------------------------------------
(* Dataset.get_data *)

\* the era5 call reads self.bounds for its second argument: AttributeError when
\* __init__ never set the attribute, raised before api_func is entered
ArgsRaise(m, b) == Dispatch(m) = "era5" /\ b = NoBounds

\* get_data ending with an unconditional self.prepared = True
PreparedAfterAlways(prep, down, total) == TRUE

\* get_data ending with: if self.downloadedFiles: self.prepared = True
PreparedAfterNonEmpty(prep, down, total) == IF down # <<>> THEN TRUE ELSE prep

\* lines 278-279: if self.downloadedFiles == self.totalFiles: self.prepared = True
PreparedAfter(prep, down, total) == IF down = total THEN TRUE ELSE prep

\* what one run of an acquisition routine may do: write the first n files of the list it
\* is handed, with content c, then return (err = "") or raise err; the merra2 routine, which
\* is also handed downloadedFiles, may record what it wrote
Outcomes(m, todo) ==
    {[n |-> n, content |-> c, err |-> e, records |-> r] :
        n \in (0..Min(Len(todo), MaxPartial)) \cup {Len(todo)},
        c \in DownloadContents,
        e \in {"", "RuntimeError"},
        r \in IF Dispatch(m) = "merra2" THEN BOOLEAN ELSE {FALSE}}

\* the file tree after the routine wrote the first n files of todo
WriteFiles(f, todo, n, c) ==
    With({todo[i][2] : i \in 1..n}, LAMBDA written :
        [p \in DOMAIN f \cup written |-> IF p \in written THEN c ELSE f[p]])

\* the partition after the merra2 routine recorded the first n files of todo as present
RecordPresent(todo, down, n) ==
    [toDownload |-> SubSeq(todo, n + 1, Len(todo)),
     downloadedFiles |-> down \o [i \in 1..n |-> <<todo[i][1], todo[i][2]>>]]

GetDataLast(err, calls, handed, written) ==
    [op |-> "get_data", error |-> err, calls |-> calls, handed |-> handed,
     written |-> written, preparedBefore |-> prepared]

GetData ==
    /\ phase = "live"
    /\ ncalls < MaxCalls
    /\ ncalls' = ncalls + 1
    /\ IF ArgsRaise(module, bounds) THEN
            /\ last' = GetDataLast("AttributeError", 0, 0, 0)
            /\ UNCHANGED <<dirs, files, prepared, toDownload, downloadedFiles>>
       ELSE IF Dispatch(module) = "none" THEN
            /\ last' = GetDataLast("", 0, 0, 0)
            /\ prepared' = PreparedAfter(prepared, downloadedFiles, totalFiles)
            /\ UNCHANGED <<dirs, files, toDownload, downloadedFiles>>
       ELSE \E o \in Outcomes(module, toDownload) :
            \E part \in {IF o.records THEN RecordPresent(toDownload, downloadedFiles, o.n)
                         ELSE [toDownload |-> toDownload, downloadedFiles |-> downloadedFiles]} :
            /\ files' = WriteFiles(files, toDownload, o.n, o.content)
            /\ dirs' = IF o.n > 0 THEN dirs \cup {DataDir(module)} ELSE dirs
            /\ toDownload' = part.toDownload
            /\ downloadedFiles' = part.downloadedFiles
            /\ prepared' = IF o.err # "" THEN prepared
                           ELSE PreparedAfter(prepared, part.downloadedFiles, totalFiles)
            /\ last' = GetDataLast(o.err, 1, Len(toDownload), o.n)
    /\ UNCHANGED <<phase, module, config, years, months, bounds, xs, ys, totalFiles>>

-----------------------------------------------------------------------------
(* Dataset.trim_variables *)

\* an I/O failure of the environment: none, or at the at-th file while opening it or
\* while writing the temporary file
TrimFailures(n) ==
    {[at |-> 0, step |-> ""]}
    \cup {[at |-> k, step |-> st] : k \in 1..Min(n, MaxFailAt), st \in {"open", "write"}}

\* ds.rename(var_rename) raises when two variables get the same lower-case name
RenameRaises(content) == \E v, w \in content : v # w /\ Lower(v) = Lower(w)

\* ds[vars] raises KeyError when a variable of the allow-list is not in the file
SubsetRaises(content, variables) == ~(variables \subseteq {Lower(v) : v \in content})

\* an iteration that writes with ds.to_netcdf(f), without a temporary file: a write that
\* fails leaves a truncated file at the path
TrimOneInPlace(content, variables, inject) ==
    IF inject = "open" THEN [step |-> "open", out |-> content]
    ELSE IF RenameRaises(content) THEN [step |-> "rename", out |-> content]
    ELSE IF SubsetRaises(content, variables) THEN [step |-> "subset", out |-> content]
    ELSE IF inject = "write" THEN [step |-> "write", out |-> {}]
    ELSE [step |-> "", out |-> variables]

\* one iteration of the loop of lines 296-308 on a file of the given content; inject is the
\* I/O failure that hits it. The result is the step that raised ("" when none did) and the
\* content the path holds afterwards: the temporary file is written first, and
\* shutil.move(target, f), the last statement, is the one write to the path
TrimOne(content, variables, inject) ==
    IF inject = "open" THEN [step |-> "open", out |-> content]
    ELSE IF RenameRaises(content) THEN [step |-> "rename", out |-> content]
    ELSE IF SubsetRaises(content, variables) THEN [step |-> "subset", out |-> content]
    ELSE IF inject = "write" THEN [step |-> "write", out |-> content]
    ELSE [step |-> "", out |-> variables]

\* the i-th iteration, reached when every earlier one succeeded: an earlier entry of the same
\* path (there is none when the paths are distinct) has left the trimmed file there; a path
\* that does not exist fails to open
TrimIteration(entries, i, f, variables, fail, distinct) ==
    LET path   == entries[i][2]
        exists == path \in DOMAIN f
        before == IF ~distinct /\ \E j \in 1..(i - 1) : entries[j][2] = path THEN variables
                  ELSE IF exists THEN f[path] ELSE {}
        r      == TrimOne(before, variables,
                          IF ~exists THEN "open" ELSE IF fail.at = i THEN fail.step ELSE "")
    IN  [path |-> path, exists |-> exists, before |-> before, step |-> r.step, out |-> r.out]

\* a loop over self.totalFiles instead
TrimEntriesTotal(down, total) == total

\* line 296: the list the loop iterates over
TrimEntries(down, total) == down

\* for d, f in self.downloadedFiles: the first iteration that raises ends the loop
TrimLoop(entries, f, variables, fail) ==
    With(Cardinality({entries[i][2] : i \in 1..Len(entries)}) = Len(entries), LAMBDA distinct :
    With([i \in 1..Len(entries) |-> TrimIteration(entries, i, f, variables, fail, distinct)]
            \o <<>>, LAMBDA its :
    With({i \in 1..Len(its) : its[i].step # ""}, LAMBDA failing :
    With(IF failing = {} THEN 0 ELSE CHOOSE i \in failing : \A j \in failing : i <= j,
         LAMBDA k :
    With({its[i].path : i \in 1..(IF k = 0 THEN Len(its) ELSE k - 1)}, LAMBDA moved :
        [failedAt |-> k,
         step     |-> IF k = 0 THEN "" ELSE its[k].step,
         before   |-> IF k = 0 THEN {} ELSE its[k].before,
         files    |-> [p \in DOMAIN f |->
                         IF k # 0 /\ its[k].path = p THEN its[k].out
                         ELSE IF p \in moved THEN variables
                         ELSE f[p]]])))))

TrimVariables ==
    /\ phase = "live"
    /\ ncalls < MaxCalls
    /\ ncalls' = ncalls + 1
    /\ \E fail \in TrimFailures(Len(TrimEntries(downloadedFiles, totalFiles))) :
       \E r \in {TrimLoop(TrimEntries(downloadedFiles, totalFiles), files,
                          WeatherDataConfig(module)[config].variables, fail)} :
            /\ files' = r.files
            /\ last' = [op |-> "trim_variables", error |-> r.step, failedAt |-> r.failedAt,
                        pre |-> files, before |-> r.before]
    /\ UNCHANGED <<dirs, phase, module, config, years, months, bounds, xs, ys,
                   prepared, toDownload, downloadedFiles, totalFiles>>

-----------------------------------------------------------------------------
(* era5._get_data: the local cache of CDS downloads *)

\* v[0] for the CDS variable names that occur
FirstLetter(v) ==
    IF v \in {"100m_u_component_of_wind", "100m_v_component_of_wind"} THEN "1"
    ELSE IF v = "2m_temperature" THEN "2"
    ELSE IF v = "forecast_surface_roughness" THEN "f"
    ELSE IF v = "orography" THEN "o"
    ELSE "?"

\* the variable lists of the requests
Era5VariableLists ==
    {<<"100m_u_component_of_wind", "2m_temperature">>,
     <<"100m_v_component_of_wind", "2m_temperature">>,
     <<"forecast_surface_roughness", "orography">>}

\* line 59: f = "".join([v[0] for v in updates['variable']])
RECURSIVE JoinFirstLetters(_)
JoinFirstLetters(variable) ==
    IF variable = <<>> THEN "" ELSE FirstLetter(Head(variable)) \o JoinFirstLetters(Tail(variable))

\* os.path.dirname(fn): era5_dir/{year}/{month:0>2}
Era5Dirname(year, month) ==
    DataDir("era5") \o "/" \o ToString(year) \o "/" \o FormatInt(month, 2)

\* line 63: fn = os.path.join(era5_dir, '{year}/{month:0>2}/{f}.nc'.format(...))
Era5Fn(updates) ==
    Era5Dirname(updates.year, updates.month) \o "/" \o JoinFirstLetters(updates.variable) \o ".nc"

\* the area argument [North, West, South, East] of a call; NoBounds: the call passes none
\* and the request is for the globe
Era5Areas == {NoBounds, <<50, -1, 49, 1>>}

\* the years of the calls: the cache keeps the years apart as it does the months
Era5Years == {2020}

\* the keyword arguments of a call
Era5Updates ==
    {[year |-> y, month |-> mo, variable |-> v, area |-> a] :
        y \in Era5Years, mo \in 1..MaxMonth, v \in Era5VariableLists, a \in Era5Areas}

Max(a, b) == IF a > b THEN a ELSE b

\* lines 68-71: without an area argument the dataset is yielded as the file holds it; with
\* one, yf, x0, y0, xf = updates['area'] and ds.where(...) keeps the part of the file's
\* area that lies inside it
Era5Where(fileArea, area) ==
    IF area = NoBounds THEN fileArea
    ELSE IF fileArea = NoBounds THEN area
    ELSE <<Min(fileArea[1], area[1]), Max(fileArea[2], area[2]),
           Max(fileArea[3], area[3]), Min(fileArea[4], area[4])>>

\* a _get_data that never looks for the local file
Era5IsFileNever(fn, f) == FALSE

\* line 65: os.path.isfile(fn)
Era5IsFile(fn, f) == fn \in DOMAIN f

\* what the CDS client may do once has_cdsapi holds: retrieve raises; download raises and
\* leaves no file or a partial one; download completes
CdsOutcomes == {"retrieve fails", "download fails", "download breaks off", "downloaded"}

\* the data variables of a file downloaded for a variable list
Era5Content(variable) == {variable[i] : i \in 1..Len(variable)}

NoEra5Call == [op |-> "", error |-> "", checks |-> 0, fetched |-> {}]

\* no Dataset is involved: phase tells whether the cdsapi package could be imported
InitEra5 ==
    /\ phase \in {"has_cdsapi", "no_cdsapi"}
    /\ dirs \in {{}, {DataDir("era5")}}
    /\ files = NoFiles
    /\ module = NoDataset.module /\ config = NoDataset.config
    /\ years = NoDataset.years /\ months = NoDataset.months
    /\ bounds = NoDataset.bounds /\ xs = NoDataset.xs /\ ys = NoDataset.ys
    /\ prepared = NoDataset.prepared
    /\ toDownload = NoDataset.toDownload
    /\ downloadedFiles = NoDataset.downloadedFiles
    /\ totalFiles = NoDataset.totalFiles
    /\ ncalls = 0
    /\ last = NoEra5Call

\* the file result.download(fn) leaves for a request: its data variables and its area
Era5File(updates) == [variables |-> Era5Content(updates.variable), area |-> updates.area]

\* yielded: the data variables of the dataset the call yields; covered: its area
Era5Last(updates, fn, err, requests, yielded, covered, fetched) ==
    [op |-> "_get_data", error |-> err, request |-> updates, fn |-> fn,
     existed |-> fn \in DOMAIN files, requests |-> requests, yielded |-> yielded,
     covered |-> covered, fetchedBefore |-> last.fetched, fetched |-> fetched]

\* entering the context manager _get_data(**updates), lines 51-122
Era5GetData ==
    /\ phase \in {"has_cdsapi", "no_cdsapi"}
    /\ ncalls < MaxCalls
    /\ ncalls' = ncalls + 1
    /\ \E updates \in Era5Updates : \E fn \in {Era5Fn(updates)} :
        IF Era5IsFile(fn, files) THEN
            /\ last' = Era5Last(updates, fn, "", 0, files[fn].variables,
                                Era5Where(files[fn].area, updates.area), last.fetched)
            /\ UNCHANGED <<dirs, files>>
        ELSE
            /\ dirs' = dirs \cup {Era5Dirname(updates.year, updates.month)}
            /\ IF phase = "no_cdsapi" THEN
                    /\ last' = Era5Last(updates, fn, "RuntimeError", 0, {}, NoBounds, last.fetched)
                    /\ UNCHANGED files
               ELSE \E o \in CdsOutcomes :
                    /\ files' = IF o = "downloaded" THEN (fn :> Era5File(updates)) @@ files
                                 ELSE IF o = "download breaks off"
                                    THEN (fn :> [variables |-> {}, area |-> updates.area]) @@ files
                                 ELSE files
                    /\ last' = IF o = "downloaded"
                               THEN Era5Last(updates, fn, "", 1, Era5Content(updates.variable),
                                             updates.area, last.fetched \cup {updates})
                               ELSE Era5Last(updates, fn, "Exception", 1, {}, NoBounds,
                                             last.fetched)
    /\ UNCHANGED <<phase, module, config, years, months, bounds, xs, ys,
                   prepared, toDownload, downloadedFiles, totalFiles>>

-----------------------------------------------------------------------------
(* era5._area *)

\* lines 143-146: return [ys.start, xs.start, ys.stop, xs.stop]
Era5Area(sx, sy) == <<sy.start, sx.start, sy.stop, sx.stop>>

\* the requests for January and February 2020 with each bounds list
AreaRequests ==
    UNION {{Request(m, c, Slice(2020, 2020, 0), Slice(1, 2, 0), b) :
                c \in DOMAIN WeatherDataConfig(m), b \in BoundsLists} :
           m \in Modules}

\* _area(xs, ys) on the slices the construction derived from the bounds
Era5AreaCall ==
    /\ phase = "live" /\ last.op = "__init__"
    /\ xs # NoSlice /\ ys # NoSlice
    /\ last' = [op |-> "_area", error |-> "", checks |-> 0, area |-> Era5Area(xs, ys)]
    /\ UNCHANGED <<dirs, files, phase, module, config, years, months, bounds, xs, ys,
                   prepared, toDownload, downloadedFiles, totalFiles, ncalls>>

-----------------------------------------------------------------------------
(* Specifications *)

\* the life of one Dataset: construction, then any sequence of get_data and trim_variables
Init == InitWith(LifeTrees)
Next == Construct(LifeRequests) \/ GetData \/ TrimVariables
Spec == Init /\ [][Next]_vars

\* construction alone, over every request and every file tree
InitPlan == InitWith(PlanTrees)
NextPlan == Construct(AllRequests)
SpecPlan == InitPlan /\ [][NextPlan]_vars

\* two constructions with the same parameters on an unchanged file tree
NextTwice == Construct(LifeRequests) \/ ConstructAgain
SpecTwice == Init /\ [][NextTwice]_vars

\* a construction with bounds, then era5._area on its slices
NextArea == Construct(AreaRequests) \/ Era5AreaCall
SpecArea == Init /\ [][NextArea]_vars

\* any sequence of era5._get_data calls on a cache that starts empty
NextEra5 == Era5GetData
SpecEra5 == InitEra5 /\ [][NextEra5]_vars

-----------------------------------------------------------------------------
(* The properties *)

\* the (config, filename) pairs of a list of entries
Pairs(entries) == {<<entries[i][1], entries[i][2]>> : i \in 1..Len(entries)}

Constructed == phase = "live" /\ last.op = "__init__"

IsPartition ==
    /\ Pairs(downloadedFiles) \cap Pairs(toDownload) = {}
    /\ Pairs(downloadedFiles) \cup Pairs(toDownload) = Pairs(totalFiles)

\* C1: immediately after construction every (config, filename) of totalFiles is in exactly
\* one of downloadedFiles and toDownload, and neither list holds a pair totalFiles lacks
C1_PartitionAfterInit == Constructed => IsPartition

\* a construction that found some files on disk and missed others
C1_Witness ==
    /\ Constructed
    /\ downloadedFiles # <<>> /\ toDownload # <<>>
    /\ Len(downloadedFiles) + Len(toDownload) = Len(totalFiles)

\* C2: immediately after construction prepared is true exactly when toDownload is empty
C2_PreparedIffNothingMissing == Constructed => (prepared <=> toDownload = <<>>)

\* C3: when get_data returns normally from a routine that was handed a non-empty toDownload
\* and wrote every file of it, prepared is true
C3_PreparedAfterAcquisition ==
    (/\ last.op = "get_data" /\ last.error = "" /\ last.calls = 1
     /\ last.handed > 0 /\ last.written = last.handed)
    => prepared

UpToStop(s) ==
    LET step == IF s.step = 0 THEN 1 ELSE s.step
    IN  [k \in 1..((s.stop - s.start) \div step + 1) |-> s.start + (k - 1) * step]

\* C5: a years or months slice with start <= stop expands to start, start + step, ...
\* restricted to the values that do not exceed stop
C5_ExpansionWithinStop ==
    Constructed =>
        /\ (years.start <= years.stop => ExpandSlice(years) = UpToStop(years))
        /\ (months.start <= months.stop => ExpandSlice(months) = UpToStop(months))

\* C6: from bounds [north, west, south, east], xs runs from west to east and ys from
\* south to north
C6_SlicesFromBounds ==
    (Constructed /\ bounds # NoBounds) =>
        /\ xs.start = bounds[2] /\ xs.stop = bounds[4]
        /\ ys.start = bounds[3] /\ ys.stop = bounds[1]

\* C7: a Dataset of a configuration other than modis_land_cover is constructed without
\* bounds, and get_data on such an era5 Dataset with missing files reaches the
\* acquisition routine
C7_GlobalScopeUsable ==
    /\ (/\ last.op = "__init__" /\ last.request.bounds = NoBounds /\ last.checks > 0
        /\ last.error = "") => phase = "live"
    /\ (/\ last.op = "get_data" /\ module = "era5" /\ bounds = NoBounds
        /\ toDownload # <<>>) => (last.calls = 1 /\ last.handed = Len(toDownload))

\* the requests the claim lists: module, weather_data_config or years absent, bounds that
\* are not four ordinates, no bounds for modis_land_cover
Rejected(req) ==
    \/ req.module = Absent
    \/ req.weather_data_config = Absent
    \/ req.years = NoSlice
    \/ (req.bounds # NoBounds /\ Len(req.bounds) # 4)
    \/ (req.bounds = NoBounds /\ req.weather_data_config = "modis_land_cover")

\* C8: construction on such a request raises before any file-existence check and yields
\* no Dataset
C8_RejectedBeforeScan ==
    (last.op = "__init__" /\ Rejected(last.request)) =>
        /\ phase = "failed" /\ last.error # ""
        /\ last.checks = 0
        /\ totalFiles = <<>> /\ module = Absent

\* modis_land_cover without bounds, on a tree that holds a directory, is rejected
C8_Witness ==
    /\ phase = "failed" /\ last.op = "__init__"
    /\ last.request.weather_data_config = "modis_land_cover"
    /\ last.request.module = "modis" /\ last.request.years # NoSlice
    /\ last.request.bounds = NoBounds
    /\ last.error = "ValueError" /\ dirs # {}

\* C9: one get_data invokes the routine at most once; when the routine raises, the caller
\* gets the error and prepared keeps its value; when it returns while a file of totalFiles
\* is absent, prepared is not true
C9_NoRetryNoPartialPrepared ==
    last.op = "get_data" =>
        /\ last.calls <= 1
        /\ (last.error # "" => prepared = last.preparedBefore)
        /\ ((last.error = "" /\ \E i \in 1..Len(totalFiles) : totalFiles[i][2] \notin DOMAIN files)
                => ~prepared)

\* the routine wrote a part of what it was handed and returned
C9_Witness ==
    /\ last.op = "get_data" /\ last.error = "" /\ last.calls = 1
    /\ 0 < last.written /\ last.written < last.handed
    /\ ~prepared

\* the paths of the entries before the k-th
Earlier(entries, k) == {entries[i][2] : i \in 1..(k - 1)}

\* C10: when trim_variables fails at a file while opening, renaming, subsetting or writing
\* the temporary file, the file holds what it held when its iteration began, which is its
\* pre-trim content, no file that comes later is modified, and every file holds either its
\* pre-trim content or the trimmed one
C10_TrimLeavesOriginal ==
    (last.op = "trim_variables" /\ last.failedAt > 0) =>
        LET k    == last.failedAt
            path == downloadedFiles[k][2]
            done == Earlier(downloadedFiles, k)
        IN  /\ DOMAIN files = DOMAIN last.pre
            /\ (path \in DOMAIN files => files[path] = last.before)
            /\ \A p \in DOMAIN files \ done : files[p] = last.pre[p]
            /\ \A p \in done : files[p] = WeatherDataConfig(module)[config].variables

\* the second file fails while the temporary file is written, after the first was trimmed
C10_Witness ==
    /\ last.op = "trim_variables" /\ last.failedAt = 2 /\ last.error = "write"
    /\ files[downloadedFiles[1][2]] # last.pre[downloadedFiles[1][2]]
    /\ files[downloadedFiles[2][2]] = last.pre[downloadedFiles[2][2]]

\* the paths of a list of entries
Paths(entries) == {entries[i][2] : i \in 1..Len(entries)}

C12_FilenamesUnique == Constructed => Cardinality(Pairs(totalFiles)) = Len(totalFiles)

CalendarDays(y, m) ==
    <<31, IF (y % 4 = 0 /\ y % 100 # 0) \/ y % 400 = 0 THEN 29 ELSE 28,
      31, 30, 31, 30, 31, 31, 30, 31, 30, 31>>[m]

\* the number of days in the (year, month) pairs that come before the k-th, the pairs
\* counted year-major and month-minor
RECURSIVE DaysBefore(_, _, _)
DaysBefore(yrs, mos, k) ==
    IF k <= 1 THEN 0
    ELSE DaysBefore(yrs, mos, k - 1)
         + CalendarDays(yrs[((k - 2) \div Len(mos)) + 1], mos[((k - 2) % Len(mos)) + 1])

DailyConfig == WeatherDataConfig(module)[config].file_granularity \in {"daily", "daily_multiple"}

\* C14: for daily and daily_multiple every (year, month) of the expanded ranges contributes
\* the days 1..days_in_month in ascending order, 29 for February 2020 and 28 for February
\* 2019, the artifacts ordered by year, then month, then day
C14_DailyEnumeration ==
    (Constructed /\ DailyConfig) =>
        With(ExpandSlice(years), LAMBDA yrs :
        With(ExpandSlice(months), LAMBDA mos :
        With(WeatherDataConfig(module)[config].fn, LAMBDA fn :
            /\ Len(totalFiles) = DaysBefore(yrs, mos, Len(yrs) * Len(mos) + 1)
            /\ \A i \in 1..Len(yrs) : \A j \in 1..Len(mos) :
                 With(DaysBefore(yrs, mos, (i - 1) * Len(mos) + j), LAMBDA off :
                    \A d \in 1..CalendarDays(yrs[i], mos[j]) :
                        totalFiles[off + d] = <<config, DatasetFn(module, fn, <<yrs[i], mos[j], d>>)>>)
            /\ (yrs = <<2020>> /\ mos = <<2>> => Len(totalFiles) = 29)
            /\ (yrs = <<2019>> /\ mos = <<2>> => Len(totalFiles) = 28))))

\* the Februaries of 2019 and 2020, one file a day
C14_Witness ==
    /\ Constructed /\ DailyConfig
    /\ ExpandSlice(years) = <<2019, 2020>> /\ ExpandSlice(months) = <<2>>
    /\ Len(totalFiles) = 57

MonthlyConfig ==
    WeatherDataConfig(module)[config].file_granularity \in {"monthly", "monthly_multiple"}

\* the artifacts of the (year, month) pairs of yrs and mos, year-major and month-minor
MonthlyArtifacts(yrs, mos) ==
    [k \in 1..(Len(yrs) * Len(mos)) |->
        <<config, DatasetFn(module, WeatherDataConfig(module)[config].fn,
                            <<yrs[((k - 1) \div Len(mos)) + 1], mos[((k - 1) % Len(mos)) + 1]>>)>>]

\* C15: for monthly and monthly_multiple totalFiles holds one artifact per (year, month) of
\* the expanded ranges, year-major and month-minor; 2020 with the months 1..12 gives the
\* twelve artifacts (2020, 1) .. (2020, 12), and so does 2020 without months
C15_MonthlyEnumeration ==
    (Constructed /\ MonthlyConfig) =>
        /\ totalFiles = MonthlyArtifacts(ExpandSlice(years), ExpandSlice(months))
        /\ (last.request.months \in {NoSlice, Slice(1, 12, 0)} =>
                totalFiles = MonthlyArtifacts(ExpandSlice(years), <<1, 2, 3, 4, 5, 6, 7, 8, 9, 10, 11, 12>>))
        /\ ((ExpandSlice(years) = <<2020>> /\ last.request.months \in {NoSlice, Slice(1, 12, 0)})
                => Len(totalFiles) = 12)

\* two years without a months argument: twenty-four artifacts
C15_Witness ==
    /\ Constructed /\ MonthlyConfig
    /\ last.request.months = NoSlice
    /\ ExpandSlice(years) = <<2019, 2020>>
    /\ Len(totalFiles) = 24 /\ toDownload # <<>> /\ downloadedFiles # <<>>

MultipleConfig ==
    WeatherDataConfig(module)[config].file_granularity \in {"daily_multiple", "monthly_multiple"}

\* C16: for daily_multiple and monthly_multiple the entries of toDownload are those of the
\* missing files, in order, each with two urls: the first rendered from url[0], the second
\* from url[1], both with the temporal key of the filename, and the two differ
C16_TwoUrls ==
    (Constructed /\ MultipleConfig) =>
        With(WeatherDataConfig(module)[config], LAMBDA wc :
        With(TemporalKeys(KeyArity(config, wc), ExpandSlice(years), ExpandSlice(months)),
             LAMBDA keys :
        With(DOMAIN files, LAMBDA onDisk :
        With(Indices(Len(totalFiles), LAMBDA i : totalFiles[i][2] \notin onDisk), LAMBDA miss :
            /\ Len(keys) = Len(totalFiles)
            /\ Len(toDownload) = Len(miss)
            /\ \A k \in 1..Len(miss) :
                 With(toDownload[k], LAMBDA e :
                    /\ Len(e) = 4
                    /\ e[1] = config
                    /\ e[2] = DatasetFn(module, wc.fn, keys[miss[k]])
                    /\ e[3] = DatasetFn(module, wc.url[1], keys[miss[k]])
                    /\ e[4] = DatasetFn(module, wc.url[2], keys[miss[k]])
                    /\ e[3] # e[4])))))

\* a monthly_multiple Dataset with files on disk and at least two files to fetch
C16_Witness ==
    /\ Constructed /\ MultipleConfig
    /\ WeatherDataConfig(module)[config].file_granularity = "monthly_multiple"
    /\ downloadedFiles # <<>> /\ Len(toDownload) >= 2
    /\ Len(toDownload[2]) = 4 /\ toDownload[2][3] # toDownload[2][4]

\* the fields the temporal key of a configuration supplies: year; year, month; or year,
\* month, day; and spinup when the module declares spinup_var
KeyFields(m, cfgName) ==
    {<<"year", "month", "day">>[i] : i \in 1..KeyArity(cfgName, WeatherDataConfig(m)[cfgName])}
    \cup (IF SpinupVar(m) THEN {"spinup"} ELSE {})

\* the filename template or a url template of the configuration names a field the key lacks
NamesOtherField(m, cfgName) ==
    LET wc == WeatherDataConfig(m)[cfgName]
    IN  \/ ~(TemplateFields(wc.fn) \subseteq KeyFields(m, cfgName))
        \/ \E k \in 1..Len(UrlTemplates(m, wc)) :
                ~(TemplateFields(UrlTemplates(m, wc)[k]) \subseteq KeyFields(m, cfgName))

\* C17: when a template of the selected configuration names a field the temporal key does
\* not supply, construction raises and yields no Dataset, whatever the file tree holds
C17_TemplateFieldRaises ==
    (/\ last.op = "__init__" /\ ~Rejected(last.request)
     /\ last.request.weather_data_config \in DOMAIN WeatherDataConfig(last.request.module)
     /\ NamesOtherField(last.request.module, last.request.weather_data_config))
    => (phase = "failed" /\ last.error # "")

\* C18: for modis_land_cover totalFiles holds one artifact per year of the expanded year
\* range, whatever the months argument, and every toDownload entry is (config, filename,
\* bounds, band), without a url
C18_ModisEntries ==
    (Constructed /\ config = "modis_land_cover") =>
        With(WeatherDataConfig(module)[config], LAMBDA wc :
        With(ExpandSlice(years), LAMBDA yrs :
        With(DOMAIN files, LAMBDA onDisk :
        With(Indices(Len(yrs), LAMBDA i : DatasetFn(module, wc.fn, <<yrs[i]>>) \notin onDisk),
             LAMBDA miss :
            /\ totalFiles = [i \in 1..Len(yrs) |-> <<config, DatasetFn(module, wc.fn, <<yrs[i]>>)>>]
            /\ toDownload = [k \in 1..Len(miss) |->
                    <<config, DatasetFn(module, wc.fn, <<yrs[miss[k]]>>), bounds, wc.band>>]
            /\ bounds # NoBounds))))

\* two years and an explicit months slice of two months: two artifacts, one to fetch
C18_Witness ==
    /\ Constructed /\ config = "modis_land_cover"
    /\ Len(ExpandSlice(months)) = 2 /\ last.request.months # NoSlice
    /\ Len(totalFiles) = 2 /\ Len(toDownload) = 1 /\ Len(downloadedFiles) = 1
    /\ toDownload[1][3] = <<50, -1, 49, 1>> /\ toDownload[1][4] = "LC_Type1"

\* C19: get_data on a Dataset whose module is neither era5 nor merra2 invokes no routine and
\* leaves toDownload, downloadedFiles, totalFiles and the file tree as they were; prepared
\* changes at most from false to true, and only when downloadedFiles equals totalFiles
C19_OtherModuleNoOp ==
    [][(ncalls' # ncalls /\ last'.op = "get_data" /\ module \notin {"era5", "merra2"}) =>
        /\ last'.calls = 0 /\ last'.error = ""
        /\ UNCHANGED <<toDownload, downloadedFiles, totalFiles, dirs, files>>
        /\ (prepared' # prepared =>
                (~prepared /\ prepared' /\ downloadedFiles = totalFiles))]_vars

\* get_data returned on a modis Dataset that still has a file to fetch
C19_Witness ==
    /\ last.op = "get_data" /\ module = "modis"
    /\ last.calls = 0 /\ last.error = ""
    /\ toDownload # <<>> /\ ~prepared
    /\ toDownload[1][2] \notin DOMAIN files

\* C20: _get_data sends a request to the CDS API only when the local file of its year,
\* month and variable list does not exist, and a call with the year, month and variable
\* list of an earlier call that downloaded successfully finds the file and sends none
C20_RequestOnlyWhenAbsent ==
    last.op = "_get_data" =>
        /\ (last.requests > 0 => ~last.existed)
        /\ (last.request \in last.fetchedBefore => (last.existed /\ last.requests = 0))
        /\ last.requests <= 1

\* a call served from the file an earlier call with the same arguments downloaded
C20_Witness ==
    /\ last.op = "_get_data" /\ last.request \in last.fetchedBefore
    /\ last.error = "" /\ last.requests = 0
    /\ last.yielded = Era5Content(last.request.variable)

\* the area have contains the area want; NoBounds is the globe
Covers(have, want) ==
    \/ have = NoBounds
    \/ /\ want # NoBounds
       /\ have[1] >= want[1] /\ have[2] <= want[2]
       /\ have[3] <= want[3] /\ have[4] >= want[4]

\* C21: the dataset a _get_data call yields holds the variables the call asked for and
\* covers the area it asked for, whether the call downloaded the file or found the file
\* that an earlier call for the same year and month left
C21_YieldsWhatWasAsked ==
    (last.op = "_get_data" /\ last.error = "") =>
        /\ Era5Content(last.request.variable) \subseteq last.yielded
        /\ Covers(last.covered, last.request.area)

\* C22: era5._area applied to the xs and ys that the construction derives from the bounds
\* [north, west, south, east] returns the same four ordinates in that order
C22_AreaRoundTrip == last.op = "_area" => last.area = bounds

====
